---- MODULE Spec2Model ----
(***************************************************************************)
(* ItemWatcher: the price store, the per-product check (check_product),    *)
(* the batch runner (check_all_products) and the entry points that start   *)
(* them (scheduler run_check, web and CLI handlers).                       *)
(*                                                                         *)
(* Time is modelled twice, as the code uses it twice: `clock` is SQLite's  *)
(* CURRENT_TIMESTAMP in seconds (recorded_at, added_at), `today` is the    *)
(* calendar date datetime.now().date() of the scheduler.                   *)
(***************************************************************************)
EXTENDS Integers, Sequences, FiniteSets, TLC

\* ---- bounds -------------------------------------------------------------
MaxPrice     == 1     \* prices scraped under SpecCheck are 0..MaxPrice
MaxBatchPrice == 3    \* prices scraped under SpecBatch, SpecDaily are 1..MaxBatchPrice
MaxTarget    == 1     \* target prices are None or at most MaxTarget
MaxUrls      == 2     \* distinct product URLs
MaxScrapes   == 3     \* successful scrapes in a behaviour of SpecCheck
MaxBatchScrapes == 4  \* successful scrapes in a behaviour of SpecBatch, SpecDaily
MaxDays      == 2     \* calendar days
MaxTextLen   == 4     \* characters of a text given to _parse_price
MaxElems     == 2     \* elements a page offers to one selector list
MaxStepScrapes == 2   \* successful scrapes in a behaviour of SpecScrape
MaxOpenFailures == 2  \* scheduler runs whose store connection fails on entry

\* ---- program constants --------------------------------------------------
SettleSeconds == 4    \* page.wait_for_timeout(4000) on every successful scrape
FirstTimeout  == 30000   \* page.goto(..., timeout=30000)
RetryPause    == 2000    \* page.wait_for_timeout(2000) before the retry
RetryTimeout  == 60000   \* page.goto(..., timeout=60000)
DefaultDelay  == 5       \* delay_between: float = 5.0
WebDelay      == 3       \* check_all_products(..., delay_between=3.0)

\* ---- values -------------------------------------------------------------
None    == -1                          \* Python None of an Optional[float]/date
Targets == {None} \cup (0..MaxTarget)
Urls    == 1..MaxUrls
Days    == 1..MaxDays

\* bool(x) of an Optional[float]: None and 0.0 are falsy
Truthy(x) == x # None /\ x # 0

NoInfo    == [price |-> None, in_stock |-> FALSE]            \* no ProductInfo
NoRow     == [id |-> 0, product_id |-> 0, price |-> None,
              in_stock |-> FALSE, recorded_at |-> 0]         \* no PriceRecord
NoProduct == [id |-> 0, target_price |-> None]               \* no WatchedProduct

\* what a scrape can return: every price from 0 with either stock status
\* under SpecCheck; under SpecBatch a wider range of prices of products in
\* stock, and targets that are set
CheckInfos   == [price : 0..MaxPrice, in_stock : BOOLEAN]
BatchInfos   == [price : 1..MaxBatchPrice, in_stock : {TRUE}]
BatchTargets == {None} \cup (1..MaxTarget)

\* the channel calls of a check, by the names used in watcher.py
EmailPriceAlert     == "notifier.send_price_alert"
EmailBackInStock    == "notifier.send_back_in_stock_alert"
TelegramPriceAlert  == "telegram.send_price_alert"
TelegramBackInStock == "telegram.send_back_in_stock_alert"

VARIABLES
    products,           \* table products: id |-> [url, target_price, added_at, is_active]
    prices,             \* table prices in rowid order
    clock,              \* CURRENT_TIMESTAMP (seconds)
    today,              \* datetime.now().date()
    last_summary_date,  \* scheduler.py global _last_summary_date
    pc,                 \* position of the running handler
    run,                \* locals of the entry point / check_all_products
    chk,                \* locals of check_product
    summary_day,        \* the day the Telegram chat last received a daily summary
    conns,              \* store connections open (aiosqlite.connect without close)
    sched,              \* the scheduler process: start_scheduler and its event loop
    other,              \* a second web request POST /check/{id} in flight
    scr,                \* one call of scrape_product: handler, page loads, extraction
    parse_io            \* one call of _parse_price: its text and what it returned

vars == <<products, prices, clock, today, last_summary_date,
          pc, run, chk, summary_day, conns, sched, other, scr, parse_io>>

\* what the handlers of watcher.py leave alone
auxVars == <<sched, other, scr, parse_io>>

dbVars == <<products, prices, clock>>

\* ---- Database (storage/database.py) -------------------------------------
ProductIds == DOMAIN products

RowsOf(product_id) == {k \in DOMAIN prices : prices[k].product_id = product_id}

\* (mutant) ORDER BY recorded_at ASC: the oldest row comes first
OldestRows(product_id) ==
    {k \in RowsOf(product_id) :
        \A j \in RowsOf(product_id) : prices[j].recorded_at >= prices[k].recorded_at}

\* get_price_history(product_id, limit=1): ORDER BY recorded_at DESC LIMIT 1.
\* Rows with equal recorded_at come in an order SQLite does not fix.
LatestRows(product_id) ==
    {k \in RowsOf(product_id) :
        \A j \in RowsOf(product_id) : prices[j].recorded_at <= prices[k].recorded_at}

\* get_latest_price: history[0] if history else None
get_latest_price(product_id) ==
    IF RowsOf(product_id) = {} THEN {NoRow}
    ELSE {prices[k] : k \in LatestRows(product_id)}

\* get_lowest_price: SELECT MIN(price)
get_lowest_price(product_id) ==
    IF RowsOf(product_id) = {} THEN None
    ELSE CHOOSE m \in {prices[k].price : k \in RowsOf(product_id)} :
            \A k \in RowsOf(product_id) : m <= prices[k].price

\* record_price: INSERT INTO prices (recorded_at defaults to CURRENT_TIMESTAMP)
record_price(product_id, info, now) ==
    Append(prices, [id |-> Len(prices) + 1, product_id |-> product_id,
                    price |-> info.price, in_stock |-> info.in_stock,
                    recorded_at |-> now])

\* record_price: UPDATE products SET last_checked = CURRENT_TIMESTAMP
update_last_checked(rows, product_id, now) ==
    [rows EXCEPT ![product_id].last_checked = now]

\* _row_to_product, as far as the watcher reads it
Snapshot(id) == [id |-> id, target_price |-> products[id].target_price]

ActiveIds == {id \in ProductIds : products[id].is_active}

Injective(s) == \A a, b \in DOMAIN s : a # b => s[a] # s[b]

\* get_active_products: WHERE is_active = 1 ORDER BY added_at DESC
get_active_products ==
    {s \in [1..Cardinality(ActiveIds) -> ActiveIds] :
        /\ Injective(s)
        /\ \A a, b \in DOMAIN s :
              a < b => products[s[a]].added_at >= products[s[b]].added_at}

IdOfUrl(url) ==
    IF \E id \in ProductIds : products[id].url = url
    THEN CHOOSE id \in ProductIds : products[id].url = url
    ELSE 0

\* ---- locals -------------------------------------------------------------
IdleRun == [mode |-> "idle", notifier |-> FALSE, telegram |-> FALSE,
            send_telegram_summary |-> FALSE, products |-> <<>>, i |-> 0,
            any_below_target |-> FALSE, above_target_products |-> <<>>,
            outcomes |-> <<>>, errors |-> <<>>, start_len |-> 0,
            summary |-> <<>>, delivered |-> FALSE,
            entry |-> "", response |-> <<>>, sleeps |-> <<>>]

IdleChk == [product |-> NoProduct, info |-> NoInfo, previous |-> NoRow,
            lowest |-> None, calls |-> <<>>, error |-> "", result |-> NoInfo]

\* no second request in flight
IdleOther == [pc |-> "idle", product |-> NoProduct, info |-> NoInfo,
              previous |-> NoRow]

\* no scrape and no parse under way
IdleScr   == [stage |-> "idle", url |-> [scheme |-> FALSE, host |-> ""],
              scraper |-> "", gotos |-> <<>>, load_errors |-> 0, waits |-> <<>>,
              price |-> [num |-> 0, den |-> 0],
              original_price |-> [num |-> 0, den |-> 0],
              in_stock |-> FALSE, page_open |-> FALSE, error |-> "",
              page |-> <<>>, strategies |-> <<>>,
              source |-> [text |-> <<>>, strike |-> FALSE, offer |-> FALSE],
              expected |-> [num |-> 0, den |-> 0]]
IdleParse == [stage |-> "idle", text |-> <<>>, result |-> [num |-> 0, den |-> 0]]

InitProgram ==
    /\ products = <<>>
    /\ prices = <<>>
    /\ clock = 0
    /\ today = 1
    /\ last_summary_date = None
    /\ pc = "idle"
    /\ run = IdleRun
    /\ chk = IdleChk
    /\ summary_day = None
    /\ conns = 0
    /\ sched = "running"
    /\ other = IdleOther

Init ==
    /\ InitProgram
    /\ scr = IdleScr
    /\ parse_io = IdleParse

\* ---- scraping (watcher.scrape_product, scrapers/*.py) -------------------
\* A scrape that returns has waited SettleSeconds for the price to render.

\* URLs are taken into use in the order 1, 2, ...: which URL is new is
\* immaterial, only whether it is already stored
KnownOrNext(url) == url <= Len(products) + 1

AfterScrape(now) == now + SettleSeconds

\* ---- store operations of the CLI / web handlers -------------------------
Quiet == pc = "idle"

\* the titles a product page shows from one scrape to another
Titles == {"title A", "title B"}

SomeTitle == "title A"

\* (mutant) the conflict clause takes the new target as well
add_product_with_target(url, title, target_price, now) ==
    IF IdOfUrl(url) = 0
    THEN Append(products, [url |-> url, title |-> title,
                           target_price |-> target_price, added_at |-> now,
                           is_active |-> TRUE, last_checked |-> None,
                           readd |-> <<>>])
    ELSE [products EXCEPT
             ![IdOfUrl(url)].title = title,
             ![IdOfUrl(url)].target_price = target_price,
             ![IdOfUrl(url)].is_active = TRUE,
             ![IdOfUrl(url)].readd = <<[target_price |-> target_price,
                                        stored |-> products[IdOfUrl(url)].target_price,
                                        title |-> products[IdOfUrl(url)].title,
                                        is_active |-> products[IdOfUrl(url)].is_active,
                                        rows |-> Cardinality(RowsOf(IdOfUrl(url)))]>>]

\* add_product: INSERT ... ON CONFLICT(url) DO UPDATE SET title, is_active = 1.
\* readd is no column: it keeps, for a URL that was stored already, the
\* target the call passed and the target, title, active flag and number of
\* price rows the row had when the call came.
add_product(url, title, target_price, now) ==
    IF IdOfUrl(url) = 0
    THEN Append(products, [url |-> url, title |-> title,
                           target_price |-> target_price, added_at |-> now,
                           is_active |-> TRUE, last_checked |-> None,
                           readd |-> <<>>])
    ELSE [products EXCEPT
             ![IdOfUrl(url)].title = title,
             ![IdOfUrl(url)].is_active = TRUE,
             ![IdOfUrl(url)].readd = <<[target_price |-> target_price,
                                        stored |-> products[IdOfUrl(url)].target_price,
                                        title |-> products[IdOfUrl(url)].title,
                                        is_active |-> products[IdOfUrl(url)].is_active,
                                        rows |-> Cardinality(RowsOf(IdOfUrl(url)))]>>]

\* the id add_product RETURNs
AddedId(url) == IF IdOfUrl(url) = 0 THEN Len(products) + 1 ELSE IdOfUrl(url)

\* cli.add / web add_product: scrape, add_product, record_price
AddProduct(url, title, target_price, info) ==
    /\ pc = "idle"
    /\ KnownOrNext(url)
    /\ clock' = AfterScrape(clock)
    /\ products' = update_last_checked(add_product(url, title, target_price, clock'),
                                       AddedId(url), clock')
    /\ prices' = record_price(AddedId(url), info, clock')
    /\ UNCHANGED <<today, last_summary_date, pc, run, chk, summary_day, conns, auxVars>>

\* the same handler stopped between the commit of add_product and
\* record_price (process killed, or record_price raising)
AddProductInterrupted(url, target_price) ==
    /\ pc = "idle"
    /\ KnownOrNext(url)
    /\ IdOfUrl(url) = 0
    /\ clock' = AfterScrape(clock)
    /\ products' = add_product(url, SomeTitle, target_price, clock')
    /\ UNCHANGED <<prices, today, last_summary_date, pc, run, chk, summary_day, conns, auxVars>>

\* (mutant) a hard delete: the product's rows go with it
RemoveProductWithHistory(id) ==
    /\ Quiet
    /\ id \in ProductIds
    /\ products[id].is_active
    /\ products' = [products EXCEPT ![id].is_active = FALSE]
    /\ prices' = SelectSeq(prices, LAMBDA r : r.product_id # id)
    /\ UNCHANGED <<clock, today, last_summary_date, pc, run, chk, summary_day, conns, auxVars>>

\* cli.remove / web remove_product: soft delete
RemoveProduct(id) ==
    /\ Quiet
    /\ id \in ProductIds
    /\ products[id].is_active
    /\ products' = [products EXCEPT ![id].is_active = FALSE]
    /\ UNCHANGED <<prices, clock, today, last_summary_date, pc, run, chk, summary_day, conns, auxVars>>

\* cli.target / web set_target_price
SetTargetPrice(id, target_price) ==
    /\ Quiet
    /\ id \in ProductIds
    /\ products[id].target_price # target_price
    /\ products' = [products EXCEPT ![id].target_price = target_price]
    /\ UNCHANGED <<prices, clock, today, last_summary_date, pc, run, chk, summary_day, conns, auxVars>>

\* ---- calendar and process lifetime --------------------------------------
NewDay ==
    /\ Quiet
    /\ today < MaxDays
    /\ today' = today + 1
    /\ UNCHANGED <<dbVars, last_summary_date, pc, run, chk, summary_day, conns, auxVars>>

\* the scheduler process is restarted: the module global is None again
RestartScheduler ==
    /\ pc = "idle"
    /\ last_summary_date # None
    /\ last_summary_date' = None
    /\ UNCHANGED <<dbVars, today, pc, run, chk, summary_day, conns, auxVars>>

\* ---- entry points -------------------------------------------------------
\* Every entry point builds its notifiers from the Config of its process
\* (config.email, config.telegram: configured or None), which is the
\* parameter `email` / `telegram` of the actions below.
NewChk(product) == [IdleChk EXCEPT !.product = product]

\* `async with Database(...)` of the entry point, then check_all_products
\* line 113 and the first loop iteration
StartBatch(entry, notifier, telegram, send_telegram_summary) ==
    \E plist \in get_active_products :
        /\ run' = [IdleRun EXCEPT !.mode = "check_all_products", !.entry = entry,
                       !.notifier = notifier, !.telegram = telegram,
                       !.send_telegram_summary = send_telegram_summary,
                       !.products = [k \in DOMAIN plist |-> Snapshot(plist[k])],
                       !.i = 1, !.start_len = Len(prices)]
        /\ conns' = conns + 1
        /\ IF plist = <<>>
           THEN pc' = "summary" /\ chk' = IdleChk
           ELSE pc' = "scrape" /\ chk' = NewChk(Snapshot(plist[1]))

\* (mutant) every run asks for the summary
SendSummaryFlagAlways(last, day) == TRUE

\* run_check: the summary flag is decided, and the date stored, before the batch
SendSummaryFlag(last, day) == last # day

RunCheck(email, telegram) ==
    /\ pc = "idle"
    /\ sched = "running"
    /\ last_summary_date' =
          IF SendSummaryFlag(last_summary_date, today) THEN today ELSE last_summary_date
    /\ StartBatch("scheduler", email, telegram,
                  SendSummaryFlag(last_summary_date, today))
    /\ UNCHANGED <<dbVars, today, summary_day, auxVars>>

\* web POST /check-all: send_telegram_summary keeps its default True
WebCheckAll(email, telegram) ==
    /\ pc = "idle"
    /\ StartBatch("web", email, telegram, TRUE)
    /\ UNCHANGED <<dbVars, today, last_summary_date, summary_day, auxVars>>

\* cli check (no --id): check_all_products(db, notifier), no Telegram
CliCheckAll(email) ==
    /\ pc = "idle"
    /\ StartBatch("cli", email, FALSE, TRUE)
    /\ UNCHANGED <<dbVars, today, last_summary_date, summary_day, auxVars>>

\* `async with Database(...)`, db.get_product, then check_product
StartSingle(entry, id, notifier, telegram) ==
    /\ pc = "idle"
    /\ id \in ProductIds
    /\ run' = [IdleRun EXCEPT !.mode = "check_product", !.notifier = notifier,
                   !.telegram = telegram, !.start_len = Len(prices),
                   !.entry = entry]
    /\ chk' = NewChk(Snapshot(id))
    /\ conns' = conns + 1
    /\ pc' = "scrape"
    /\ UNCHANGED <<dbVars, today, last_summary_date, summary_day, auxVars>>

\* web POST /check/{product_id}
WebCheckOne(id, email, telegram) == StartSingle("web", id, email, telegram)

\* cli check --id: check_product(db, product, notifier)
CliCheckOne(id, email) == StartSingle("cli", id, email, FALSE)

IsBatch == run.mode = "check_all_products"

\* ---- check_product (watcher.py 30-96) -----------------------------------
\* (mutant) the except clause hands back what was scraped
CaughtResultInfo(info) == info

\* line 96: return None
CaughtResult(info) == NoInfo

\* the `except Exception` of check_product: print the error, return None
Fail(what) ==
    /\ chk' = [chk EXCEPT !.error = what, !.result = CaughtResult(chk.info)]
    /\ run' = [run EXCEPT !.errors = Append(@, chk.product.id)]
    /\ pc' = "ret"

\* line 42: info = await scrape_product(product.url)
Scrape(info) ==
    /\ pc = "scrape"
    /\ chk' = [chk EXCEPT !.info = info]
    /\ clock' = AfterScrape(clock)
    /\ pc' = "read"
    /\ UNCHANGED <<products, prices, today, last_summary_date, run, summary_day, conns, auxVars>>

\* line 42 raising: no scraper for the URL, page load or extraction failed
ScrapeFails ==
    /\ pc = "scrape"
    /\ Fail("scrape")
    /\ UNCHANGED <<dbVars, today, last_summary_date, summary_day, conns, auxVars>>

\* lines 45-46: previous and lowest are read before the new row is written
ReadPrevious ==
    /\ pc = "read"
    /\ \E previous \in get_latest_price(chk.product.id) :
          chk' = [chk EXCEPT !.previous = previous,
                             !.lowest = get_lowest_price(chk.product.id)]
    /\ pc' = "record"
    /\ UNCHANGED <<dbVars, today, last_summary_date, run, summary_day, conns, auxVars>>

\* (mutant) the row is not written before the sends
RecordPriceAfterSends ==
    /\ pc = "record"
    /\ pc' = "email_price"
    /\ UNCHANGED <<dbVars, today, last_summary_date, run, chk, summary_day, conns, auxVars>>

\* lines 49-54
RecordPrice ==
    /\ pc = "record"
    /\ prices' = record_price(chk.product.id, chk.info, clock)
    /\ products' = update_last_checked(products, chk.product.id, clock)
    /\ pc' = "email_price"
    /\ UNCHANGED <<clock, today, last_summary_date, run, chk, summary_day, conns, auxVars>>

\* (mutant) `<=` for `<`: an unchanged price counts as a drop
EmailPriceAlertDueLe(notifier, previous, info) ==
    notifier /\ previous # NoRow /\ info.price <= previous.price

\* lines 57-58
EmailPriceAlertDue(notifier, previous, info) ==
    notifier /\ previous # NoRow /\ info.price < previous.price

\* lines 57, 68
EmailBackInStockDue(notifier, previous, info) ==
    notifier /\ previous # NoRow /\ info.in_stock /\ ~previous.in_stock

\* line 76
TelegramPriceAlertDue(telegram, product, info) ==
    telegram /\ Truthy(product.target_price) /\ info.price <= product.target_price

\* line 85
TelegramBackInStockDue(telegram, previous, info) ==
    telegram /\ previous # NoRow /\ info.in_stock /\ ~previous.in_stock

\* (mutant) a send that raised is passed over and the next one is made
AfterFailureContinue(next) == next

\* a send that raises leaves the try block: the sends after it are skipped
AfterFailure(next) == "ret"

\* one `if ...: await channel.send(...)`: the call is made when due, and it
\* either returns or raises into the except clause of check_product
SendStep(at, due, call, next) ==
    /\ pc = at
    /\ IF due
       THEN \/ /\ chk' = [chk EXCEPT !.calls = Append(@, call),
                             !.result = IF next = "ret" THEN chk.info ELSE @]
               /\ pc' = next
               /\ UNCHANGED run
            \/ /\ chk' = [chk EXCEPT !.calls = Append(@, call),
                             !.error = call, !.result = CaughtResult(chk.info)]
               /\ run' = [run EXCEPT !.errors = Append(@, chk.product.id)]
               /\ pc' = AfterFailure(next)
       ELSE /\ chk' = [chk EXCEPT !.result = IF next = "ret" THEN chk.info ELSE @]
            /\ pc' = next
            /\ UNCHANGED run
    /\ UNCHANGED <<dbVars, today, last_summary_date, summary_day, conns, auxVars>>

SendEmailPriceAlert ==
    SendStep("email_price", EmailPriceAlertDue(run.notifier, chk.previous, chk.info),
             EmailPriceAlert, "email_stock")

SendEmailBackInStock ==
    SendStep("email_stock", EmailBackInStockDue(run.notifier, chk.previous, chk.info),
             EmailBackInStock, "telegram_price")

SendTelegramPriceAlert ==
    SendStep("telegram_price", TelegramPriceAlertDue(run.telegram, chk.product, chk.info),
             TelegramPriceAlert, "telegram_stock")

\* the last statement before `return info` (line 92)
SendTelegramBackInStock ==
    SendStep("telegram_stock", TelegramBackInStockDue(run.telegram, chk.previous, chk.info),
             TelegramBackInStock, "ret")

\* what the caller of a single check gets back.  web check_product_now
\* (app.py 276-281): a JSON body with status "success" and the price, null
\* when check_product returned None.  cli check --id (cli.py 256-260): the
\* console, on which check_product has printed its error line and on which
\* the price line follows when there is an info.
Response(entry, result, error) ==
    IF entry = "web"
    THEN [status |-> "success", price |-> result.price, message |-> ""]
    ELSE [status |-> "console", price |-> result.price, message |-> error]

\* cli check --id / web check_product_now take the result and answer
ReturnSingle ==
    /\ pc = "ret"
    /\ ~IsBatch
    /\ pc' = "done"
    /\ run' = [run EXCEPT !.response = <<Response(run.entry, chk.result, chk.error)>>]
    /\ UNCHANGED <<dbVars, today, last_summary_date, chk, summary_day, conns, auxVars>>

\* ---- check_all_products (watcher.py 99-148) -----------------------------
\* lines 123-125
AnyBelow(any_below_target, info, product) ==
    any_below_target
    \/ (info # NoInfo /\ Truthy(product.target_price)
        /\ info.price <= product.target_price)

\* lines 123, 126-128
AboveList(above, info, product) ==
    IF info # NoInfo /\ Truthy(product.target_price)
       /\ ~(info.price <= product.target_price)
    THEN Append(above, [product |-> product.id, price |-> info.price,
                        gap |-> info.price - product.target_price])
    ELSE above

\* (mutant) a failed check ends the loop
NextIndexAbort(i, result) == IF result = NoInfo THEN i + MaxUrls + 1 ELSE i + 1

\* the loop goes on to the next product whatever check_product returned
NextIndex(i, result) == i + 1

\* the delay_between the entry point runs the batch with: the web handler
\* passes 3.0, the CLI and the scheduler leave the default
delay_between(entry) == IF entry = "web" THEN WebDelay ELSE DefaultDelay

\* (mutant) the loop sleeps after the last product as well
SleepDueAlways(i, n) == TRUE

\* line 131: if i < len(products) - 1, for the i-th product counted from 1
SleepDue(i, n) == i < n

\* lines 121-132: take the result of check_product, aggregate, sleep, loop.
\* The sleep is over when the step is: the next check_product is called by
\* the statement after it.
Aggregate ==
    /\ pc = "ret"
    /\ IsBatch
    /\ LET n == NextIndex(run.i, chk.result) IN
       /\ run' = [run EXCEPT
             !.any_below_target = AnyBelow(@, chk.result, chk.product),
             !.above_target_products = AboveList(@, chk.result, chk.product),
             !.outcomes = Append(@, [product |-> chk.product.id, info |-> chk.info,
                                     result |-> chk.result]),
             !.sleeps = IF SleepDue(run.i, Len(run.products))
                        THEN Append(@, delay_between(run.entry)) ELSE @,
             !.i = n]
       /\ IF n <= Len(run.products)
          THEN pc' = "scrape" /\ chk' = NewChk(run.products[n])
          ELSE pc' = "summary" /\ chk' = IdleChk
    /\ UNCHANGED <<dbVars, today, last_summary_date, summary_day, conns, auxVars>>

\* lines 137, 146: which summary, if any, is due
SummaryKind(telegram, send_telegram_summary, any_below_target, above) ==
    IF telegram /\ send_telegram_summary /\ ~any_below_target /\ above # <<>>
    THEN "closest"
    ELSE IF telegram /\ send_telegram_summary /\ ~any_below_target /\ above = <<>>
         THEN "plain"
         ELSE "none"

\* line 139: min(above_target_products, key=gap) is the first minimal element
Closest(above) ==
    above[CHOOSE k \in DOMAIN above :
            /\ \A j \in DOMAIN above : above[k].gap <= above[j].gap
            /\ \A j \in 1..(k-1) : above[j].gap > above[k].gap]

\* the arguments of telegram.send_daily_summary (lines 140-148)
SummaryMessage(kind, total, above) ==
    IF kind = "closest"
    THEN [total_checked |-> total, closest_product |-> Closest(above).product,
          closest_price |-> Closest(above).price, closest_gap |-> Closest(above).gap]
    ELSE [total_checked |-> total, closest_product |-> 0,
          closest_price |-> None, closest_gap |-> None]

\* lines 134-148; the send either returns or raises out of the batch
Summary ==
    /\ pc = "summary"
    /\ LET kind == SummaryKind(run.telegram, run.send_telegram_summary,
                               run.any_below_target, run.above_target_products)
           msg  == SummaryMessage(kind, Len(run.products), run.above_target_products)
       IN IF kind = "none"
          THEN UNCHANGED <<run, summary_day>>
          ELSE \/ /\ run' = [run EXCEPT !.summary = <<msg>>, !.delivered = TRUE]
                  /\ summary_day' = today
               \/ /\ run' = [run EXCEPT !.summary = <<msg>>]
                  /\ UNCHANGED summary_day
    /\ pc' = "done"
    /\ UNCHANGED <<dbVars, today, last_summary_date, chk, conns, auxVars>>

\* the batch or the single check returns to its entry point, which leaves
\* `async with Database(...)`: __aexit__ closes the connection
Finish ==
    /\ pc = "done"
    /\ pc' = "idle"
    /\ run' = IdleRun
    /\ chk' = IdleChk
    /\ conns' = conns - 1
    /\ UNCHANGED <<dbVars, today, last_summary_date, summary_day, auxVars>>

\* ---- scheduler process (scheduler.py 49-90) ------------------------------
\* start_scheduler waits on stop_event while the job's run_check runs as a
\* task of its own (asyncio.create_task in the job, lines 57-58); nothing
\* keeps a reference to that task or waits for it.

\* run_check has a product check under way: between the start of
\* check_product and its return
MidProduct == pc \in {"scrape", "read", "record", "email_price", "email_stock",
                      "telegram_price", "telegram_stock"}

\* lines 70-75: SIGINT / SIGTERM; the handler has stop_event set
ShutdownSignal ==
    /\ sched = "running"
    /\ sched' = "stopping"
    /\ UNCHANGED <<dbVars, today, last_summary_date, pc, run, chk, summary_day,
                   conns, other, scr, parse_io>>

\* lines 83-90: stop_event.wait() returns, scheduler.shutdown(), and
\* asyncio.run ends the loop: it cancels every task still pending.  A
\* run_check in flight gets CancelledError at the await it stands at, which
\* `except Exception` (watcher.py 94) does not catch; it unwinds through
\* `async with Database`, whose __aexit__ closes the connection.
SchedulerExit ==
    /\ sched = "stopping"
    /\ sched' = "stopped"
    /\ pc' = "idle"
    /\ run' = IdleRun
    /\ chk' = IdleChk
    /\ conns' = IF pc = "idle" THEN conns ELSE conns - 1
    /\ UNCHANGED <<dbVars, today, last_summary_date, summary_day, other, scr, parse_io>>

\* run_check whose `async with Database` fails on entry: __aenter__
\* (database.py 41-45) has connected and _init_schema raises (the file is
\* locked by another process, or is not a database).  The body is not
\* entered and __aexit__ is not called; run_check ends with the exception.
RunCheckSchemaFails ==
    /\ pc = "idle"
    /\ sched = "running"
    /\ last_summary_date' =
          IF SendSummaryFlag(last_summary_date, today) THEN today ELSE last_summary_date
    /\ conns' = conns + 1
    /\ UNCHANGED <<dbVars, today, pc, run, chk, summary_day, auxVars>>

\* ---- a second request POST /check/{product_id} --------------------------
\* The web app serves its requests on one event loop: a second request runs
\* check_product between the awaits of the first, on a connection of its
\* own.  Nothing in app.py or watcher.py makes one wait for the other.
otherFrame == <<today, last_summary_date, pc, run, chk, summary_day, sched, scr, parse_io>>

\* `async with Database(...)`, db.get_product
OtherCheckOne(id) ==
    /\ other.pc = "idle"
    /\ id \in ProductIds
    /\ other' = [IdleOther EXCEPT !.pc = "scrape", !.product = Snapshot(id)]
    /\ conns' = conns + 1
    /\ UNCHANGED <<dbVars, otherFrame>>

\* watcher.py 42; its scrape may run while the first request's does, so it
\* ends in the same second or SettleSeconds later
OtherScrape(info) ==
    /\ other.pc = "scrape"
    /\ other' = [other EXCEPT !.pc = "read", !.info = info]
    /\ clock' \in {clock, AfterScrape(clock)}
    /\ UNCHANGED <<products, prices, conns, otherFrame>>

\* watcher.py 45-46
OtherReadPrevious ==
    /\ other.pc = "read"
    /\ \E previous \in get_latest_price(other.product.id) :
          other' = [other EXCEPT !.pc = "record", !.previous = previous]
    /\ UNCHANGED <<dbVars, conns, otherFrame>>

\* watcher.py 49-54
OtherRecordPrice ==
    /\ other.pc = "record"
    /\ prices' = record_price(other.product.id, other.info, clock)
    /\ products' = update_last_checked(products, other.product.id, clock)
    /\ other' = [other EXCEPT !.pc = "alerts"]
    /\ UNCHANGED <<clock, conns, otherFrame>>

\* watcher.py 56-96 and app.py 276-281: the sends, the answer, __aexit__
OtherFinish ==
    /\ other.pc = "alerts"
    /\ other' = IdleOther
    /\ conns' = conns - 1
    /\ UNCHANGED <<dbVars, otherFrame>>

\* ---- scrapers: texts and _parse_price (amazon.py / flipkart.py 20-29) ----
\* A text is a sequence of characters.  The alphabet has the currency sign,
\* the thousands separator, a blank, two digits, the decimal point, the minus
\* sign and a letter.
Chars == {"₹", ",", " ", "0", "1", ".", "-", "F"}

Digits == {"0", "1"}

DigitValue(c) == IF c = "1" THEN 1 ELSE 0

SeqsUpTo(S, n) == UNION {[1..k -> S] : k \in 0..n}

Texts == SeqsUpTo(Chars, MaxTextLen)

\* A float is num/den with den a power of ten.  Two values that are no
\* number: what _parse_price returns for "no price" (Python None), and
\* float() raising ValueError.
NoValue    == [num |-> 0, den |-> 0]
ValueError == [num |-> 0, den |-> -1]

IsNumber(x) == x.den > 0

\* bool(x) of an Optional[float]
FloatTruthy(x) == IsNumber(x) /\ x.num # 0

Less(a, b) == a.num * b.den < b.num * a.den

LessEq(a, b) == a.num * b.den <= b.num * a.den

\* re.sub(r'[₹,\s]', '', text)
re_sub(text) == SelectSeq(text, LAMBDA c : c \notin {"₹", ",", " "})

RECURSIVE DigitsValue(_)
DigitsValue(s) ==
    IF s = <<>> THEN 0
    ELSE 10 * DigitsValue(SubSeq(s, 1, Len(s) - 1)) + DigitValue(s[Len(s)])

RECURSIVE Pow10(_)
Pow10(n) == IF n = 0 THEN 1 ELSE 10 * Pow10(n - 1)

\* float(cleaned) on this alphabet: an optional minus sign, then digits with
\* at most one decimal point and at least one digit; anything else raises
\* ValueError
float(cleaned) ==
    LET neg   == cleaned # <<>> /\ Head(cleaned) = "-"
        body  == IF neg THEN Tail(cleaned) ELSE cleaned
        dots  == {k \in DOMAIN body : body[k] = "."}
        wellformed ==
            /\ \A k \in DOMAIN body : body[k] \in Digits \cup {"."}
            /\ Cardinality(dots) <= 1
            /\ \E k \in DOMAIN body : body[k] \in Digits
        digits == SelectSeq(body, LAMBDA c : c \in Digits)
        frac   == IF dots = {} THEN 0 ELSE Len(body) - (CHOOSE k \in dots : TRUE)
    IN  IF wellformed
        THEN [num |-> (IF neg THEN -1 ELSE 1) * DigitsValue(digits),
              den |-> Pow10(frac)]
        ELSE ValueError

\* _parse_price: None for an empty text, else float(cleaned), None on ValueError
parse_price(text) ==
    IF text = <<>> THEN NoValue
    ELSE IF float(re_sub(text)) = ValueError THEN NoValue
         ELSE float(re_sub(text))

\* one call of _parse_price on a given text
ParsePrice ==
    /\ parse_io.stage = "called"
    /\ parse_io' = [parse_io EXCEPT !.stage = "returned",
                                     !.result = parse_price(parse_io.text)]
    /\ UNCHANGED <<dbVars, today, last_summary_date, pc, run, chk, summary_day,
                   conns, sched, other, scr>>

\* ---- get_scraper_for_url (watcher.py 11-17) ------------------------------
\* A URL as urlparse sees it: with or without a scheme, and a host.  Without
\* "scheme://" the host is part of the path and netloc is empty.
Hosts == {"amazon.in", "www.amazon.in", "flipkart.com", "www.flipkart.com",
          "amazon.com"}

UrlTexts == [scheme : BOOLEAN, host : Hosts]

netloc(url) == IF url.scheme THEN url.host ELSE ""

AmazonScraper   == "AmazonScraper"
FlipkartScraper == "FlipkartScraper"
NoScraper       == "None"

SUPPORTED_DOMAINS(scraper) ==
    IF scraper = AmazonScraper THEN {"amazon.in", "www.amazon.in"}
    ELSE {"flipkart.com", "www.flipkart.com"}

can_handle(scraper, url) == netloc(url) \in SUPPORTED_DOMAINS(scraper)

\* (mutant) the list holds the Amazon scraper only
scrapers_amazon_only == <<AmazonScraper>>

\* scrapers = [AmazonScraper(), FlipkartScraper()]
scrapers == <<AmazonScraper, FlipkartScraper>>

\* for scraper in scrapers: if scraper.can_handle(url): return scraper
RECURSIVE FirstHandler(_, _)
FirstHandler(list, url) ==
    IF list = <<>> THEN NoScraper
    ELSE IF can_handle(Head(list), url) THEN Head(list)
         ELSE FirstHandler(Tail(list), url)

get_scraper_for_url(url) == FirstHandler(scrapers, url)

\* ---- scrape_product and the scrapers' scrape() ---------------------------
\* The texts a page shows where a price is looked for: three amounts and a
\* word.
PageTexts == {<<"₹", "0">>, <<"₹", "1">>, <<"₹", "1", "0">>, <<"F">>}

\* the texts of the elements a list of selectors finds, in selector order
ElemTexts == SeqsUpTo(PageTexts, MaxElems)

\* The parsed page as a selector list sees it: the elements some selector of
\* the list matches, in document order.  Each shows a text, is struck through
\* or not, sits under offer wording (bank offer, EMI, exchange, lowest price)
\* or not, and carries the class of the first or of the second selector of
\* the list.
Pages == SeqsUpTo([text : PageTexts, strike : BOOLEAN, offer : BOOLEAN, sel : {1, 2}],
                  MaxElems)

\* no element
NoElem == [text |-> <<>>, strike |-> FALSE, offer |-> FALSE]

\* what is known of the element a price was read from
Attr(e) == [text |-> e.text, strike |-> e.strike, offer |-> e.offer]

\* soup.select(selector): the elements of the classes the selector matches
select(page, classes) == SelectSeq(page, LAMBDA e : e.sel \in classes)

\* amazon.py 63-65: '.a-price[data-a-color="price"] .a-offscreen', then
\* '.a-price .a-offscreen', which matches the elements of the first as well
price_selectors == <<{1}, {1, 2}>>

\* flipkart.py 199: '._30jeq3', then '.Nx9bqj'
legacy_selectors == <<{1}, {2}>>

\* for selector in ...: elem = soup.select_one(selector); if elem: the
\* elements the loop reads, in selector order
Found(page, selectors) ==
    LET hit(k) == select(page, selectors[k])
        ks == SelectSeq([k \in DOMAIN selectors |-> k], LAMBDA k : hit(k) # <<>>)
    IN  [j \in DOMAIN ks |-> Head(hit(ks[j]))]

TextsOf(elems) == [k \in DOMAIN elems |-> elems[k].text]

\* the first element in document order that is neither struck through nor
\* under offer wording and whose text is an amount
FirstSurviving(elems, otherwise) ==
    LET alive == SelectSeq(elems, LAMBDA e : /\ ~e.strike
                                             /\ ~e.offer
                                             /\ IsNumber(parse_price(e.text)))
    IN  IF alive = <<>> THEN otherwise ELSE parse_price(Head(alive).text)

\* scrape_product lines 22-27 up to page = await self._new_page()
BeginScrape(url) ==
    /\ pc = "scrape"
    /\ scr.stage = "idle"
    /\ LET scraper == get_scraper_for_url(url) IN
       scr' = IF scraper = NoScraper
              THEN [IdleScr EXCEPT !.stage = "raised", !.url = url,
                                   !.scraper = scraper,
                                   !.error = "No scraper available"]
              ELSE [IdleScr EXCEPT !.stage = "goto", !.url = url,
                                   !.scraper = scraper, !.page_open = TRUE]
    /\ UNCHANGED <<dbVars, today, last_summary_date, pc, run, chk, summary_day,
                   conns, sched, other, parse_io>>

\* what a step inside scrape() leaves alone
scrapeFrame == <<products, prices, clock, today, last_summary_date, pc, run, chk,
                 summary_day, conns, sched, other, parse_io>>

\* the exception leaves scrape(): finally: await page.close()
Raise(what) == [scr EXCEPT !.stage = "raised", !.error = what, !.page_open = FALSE]

\* line 38: await page.goto(url, timeout=30000); the load succeeds or raises
PageGoto(ok) ==
    /\ scr.stage = "goto"
    /\ scr' = [scr EXCEPT !.gotos = Append(@, FirstTimeout),
                          !.load_errors = IF ok THEN @ ELSE @ + 1,
                          !.stage = IF ok THEN "loaded" ELSE "retry_wait"]
    /\ UNCHANGED scrapeFrame

\* lines 39-42: print, await page.wait_for_timeout(2000)
RetryWait ==
    /\ scr.stage = "retry_wait"
    /\ scr' = [scr EXCEPT !.waits = Append(@, RetryPause), !.stage = "goto_retry"]
    /\ UNCHANGED scrapeFrame

\* (mutant) the retry is itself retried after another pause
PageGotoRetryAgain(ok) ==
    /\ scr.stage = "goto_retry"
    /\ scr' = [scr EXCEPT !.gotos = Append(@, RetryTimeout),
                          !.load_errors = IF ok THEN @ ELSE @ + 1,
                          !.stage = IF ok THEN "loaded" ELSE "retry_wait"]
    /\ UNCHANGED scrapeFrame

\* line 43: await page.goto(url, timeout=60000), outside any inner try
PageGotoRetry(ok) ==
    /\ scr.stage = "goto_retry"
    /\ scr' = IF ok
              THEN [scr EXCEPT !.gotos = Append(@, RetryTimeout), !.stage = "loaded"]
              ELSE [Raise("page.goto") EXCEPT !.gotos = Append(@, RetryTimeout),
                                              !.load_errors = @ + 1]
    /\ UNCHANGED scrapeFrame

\* for selector in ...: price = _parse_price(text); if price: break
RECURSIVE SelectorLoop(_, _)
SelectorLoop(texts, price) ==
    IF texts = <<>> THEN price
    ELSE LET p == parse_price(Head(texts))
         IN  IF FloatTruthy(p) THEN p ELSE SelectorLoop(Tail(texts), p)

\* amazon.py 101-107: the first MRP above the price, reset to None otherwise
RECURSIVE MrpLoop(_, _)
MrpLoop(texts, price) ==
    IF texts = <<>> THEN NoValue
    ELSE LET o == parse_price(Head(texts))
         IN  IF FloatTruthy(o) /\ Less(price, o) THEN o
             ELSE MrpLoop(Tail(texts), price)

\* the element the loop's price was read from: the one it broke on, or the
\* last one it read
RECURSIVE LoopSource(_, _)
LoopSource(elems, from) ==
    IF elems = <<>> THEN from
    ELSE IF FloatTruthy(parse_price(Head(elems).text)) THEN Attr(Head(elems))
         ELSE LoopSource(Tail(elems), Attr(Head(elems)))

\* amazon.py 62-78: the selector loop over the parsed page
AmazonPrice(page) ==
    /\ scr.stage = "loaded"
    /\ scr.scraper = AmazonScraper
    /\ LET found == Found(page, price_selectors)
           price == SelectorLoop(TextsOf(found), NoValue)
       IN  scr' = [scr EXCEPT !.price = price,
                              !.source = LoopSource(found, NoElem),
                              !.expected = FirstSurviving(page, NoValue),
                              !.strategies = Append(@, "selectors"),
                              !.page = IF price = NoValue THEN page ELSE <<>>,
                              !.stage = IF price = NoValue THEN "divs" ELSE "mrp"]
    /\ UNCHANGED scrapeFrame

\* (mutant) extraction fails as soon as the selector loop has no price
AmazonDivsSkipped ==
    /\ scr.stage = "divs"
    /\ scr' = [Raise("Could not extract price") EXCEPT !.page = <<>>]
    /\ UNCHANGED scrapeFrame

\* amazon.py 80-89: if price is None, every '.a-price .a-offscreen' element
\* of the same page; raise without a price
AmazonDivs ==
    /\ scr.stage = "divs"
    /\ LET divs == select(scr.page, {1, 2})
           price == SelectorLoop(TextsOf(divs), scr.price)
           tried == [scr EXCEPT !.strategies = Append(@, "divs"), !.page = <<>>]
       IN  scr' = IF price = NoValue
                  THEN [tried EXCEPT !.stage = "raised",
                                     !.error = "Could not extract price",
                                     !.page_open = FALSE]
                  ELSE [tried EXCEPT !.price = price,
                                     !.source = LoopSource(divs, scr.source),
                                     !.stage = "mrp"]
    /\ UNCHANGED scrapeFrame

\* amazon.py 91-143: MRP, stock status, return ProductInfo, page.close()
AmazonMrp(mrps, in_stock) ==
    /\ scr.stage = "mrp"
    /\ scr' = [scr EXCEPT !.original_price = MrpLoop(mrps, scr.price),
                          !.in_stock = in_stock, !.page_open = FALSE,
                          !.stage = "returned"]
    /\ UNCHANGED scrapeFrame

\* flipkart.py 89: /^₹[\d,]+$/
PricePattern(text) ==
    /\ Len(text) >= 2
    /\ Head(text) = "₹"
    /\ \A k \in 2..Len(text) : text[k] \in Digits \cup {","}

\* flipkart.py 113: parseInt(directText.replace(/[₹,]/g, ''), 10); NaN
\* (no value) when no digit is left
parseInt(text) ==
    LET digits == SelectSeq(text, LAMBDA c : c \in Digits)
    IN  IF digits = <<>> THEN NoValue ELSE [num |-> DigitsValue(digits), den |-> 1]

\* the elements the page offers to the script: direct text, struck through
\* or not, under offer wording or not
JsElems == SeqsUpTo([text : PageTexts, strike : BOOLEAN, offer : BOOLEAN], MaxElems)

\* flipkart.py 93-121: the candidates in document order
Candidates(elems) ==
    SelectSeq(elems, LAMBDA e : PricePattern(e.text) /\ parseInt(e.text) # NoValue)

priceCandidates(elems) ==
    SelectSeq(Candidates(elems), LAMBDA e : ~e.strike /\ ~e.offer)

mrpCandidates(elems) == SelectSeq(Candidates(elems), LAMBDA e : e.strike)

FirstOf(cands) == IF cands = <<>> THEN NoValue ELSE parseInt(Head(cands).text)

\* the element priceCandidates[0] was pushed for
FirstElem(cands) == IF cands = <<>> THEN NoElem ELSE Attr(Head(cands))

\* flipkart.py 84-141: price_data, and whether the fallback is needed
FlipkartJs(elems) ==
    /\ scr.stage = "loaded"
    /\ scr.scraper = FlipkartScraper
    /\ LET price == FirstOf(priceCandidates(elems))
       IN  scr' = [scr EXCEPT !.price = price,
                              !.original_price = FirstOf(mrpCandidates(elems)),
                              !.source = FirstElem(priceCandidates(elems)),
                              !.expected = FirstSurviving(elems, NoValue),
                              !.strategies = Append(@, "js"),
                              !.stage = IF price = NoValue THEN "fallback"
                                        ELSE "discard"]
    /\ UNCHANGED scrapeFrame

\* the bare text nodes soup.find_all finds, in document order: a text of the
\* pattern, in a struck-through element or not, under offer wording or not
TextNodes == SeqsUpTo([text : {t \in PageTexts : PricePattern(t)},
                       strike : BOOLEAN, offer : BOOLEAN], MaxElems)

\* _fallback_price_extract 207-216: first candidate outside offers that is truthy
RECURSIVE BareLoop(_)
BareLoop(nodes) ==
    IF nodes = <<>> THEN NoValue
    ELSE IF ~Head(nodes).offer /\ FloatTruthy(parse_price(Head(nodes).text))
         THEN parse_price(Head(nodes).text)
         ELSE BareLoop(Tail(nodes))

\* the text node the loop broke on
BareSource(nodes) ==
    LET taken == SelectSeq(nodes, LAMBDA e : /\ ~e.offer
                                             /\ FloatTruthy(parse_price(e.text)))
    IN  IF taken = <<>> THEN NoElem ELSE Attr(Head(taken))

\* _fallback_price_extract 218-226: the MRP
fallback_original_price(mrps) == SelectorLoop(mrps, NoValue)

\* flipkart.py 141-144 entering _fallback_price_extract(soup); 195-204: the
\* legacy selectors
FlipkartFallbackPrice(page) ==
    /\ scr.stage = "fallback"
    /\ LET found == Found(page, legacy_selectors)
           price == SelectorLoop(TextsOf(found), NoValue)
       IN  scr' = [scr EXCEPT !.price = price,
                              !.source = LoopSource(found, NoElem),
                              !.expected = FirstSurviving(page, @),
                              !.strategies = Append(@, "legacy"),
                              !.stage = IF price = NoValue THEN "fallback_text"
                                        ELSE "fallback_mrp"]
    /\ UNCHANGED scrapeFrame

\* 206-216: if price is None, the bare text nodes
FlipkartFallbackText(nodes) ==
    /\ scr.stage = "fallback_text"
    /\ scr' = [scr EXCEPT !.price = BareLoop(nodes),
                          !.source = BareSource(nodes),
                          !.expected = FirstSurviving(nodes, @),
                          !.strategies = Append(@, "text"),
                          !.stage = "fallback_mrp"]
    /\ UNCHANGED scrapeFrame

\* 218-226; the pair returned replaces price and original_price
FlipkartFallbackMrp(mrps) ==
    /\ scr.stage = "fallback_mrp"
    /\ scr' = [scr EXCEPT !.original_price = fallback_original_price(mrps),
                          !.stage = "discard"]
    /\ UNCHANGED scrapeFrame

\* flipkart.py 150-151: if original_price and original_price <= price: None
Discard(original_price, price) ==
    IF FloatTruthy(original_price) /\ LessEq(original_price, price)
    THEN NoValue ELSE original_price

\* flipkart.py 146-191: raise without a price, discard rule, stock status,
\* return ProductInfo, page.close()
FlipkartFinish(in_stock) ==
    /\ scr.stage = "discard"
    /\ scr' = IF scr.price = NoValue
              THEN Raise("Could not extract price")
              ELSE [scr EXCEPT !.original_price = Discard(@, scr.price),
                               !.in_stock = in_stock, !.page_open = FALSE,
                               !.stage = "returned"]
    /\ UNCHANGED scrapeFrame

\* the ProductInfo as check_product reads it
InfoOf(s) == [price |-> s.price.num, in_stock |-> s.in_stock]

\* check_product line 42 when scrape_product returns
ScrapeReturned ==
    /\ pc = "scrape"
    /\ scr.stage = "returned"
    /\ chk' = [chk EXCEPT !.info = InfoOf(scr)]
    /\ clock' = AfterScrape(clock)
    /\ pc' = "read"
    /\ scr' = IdleScr
    /\ UNCHANGED <<products, prices, today, last_summary_date, run, summary_day,
                   conns, sched, other, parse_io>>

\* (mutant) the failed check still marks the product as checked
ScrapeRaisedMarksChecked ==
    /\ pc = "scrape"
    /\ scr.stage = "raised"
    /\ Fail(scr.error)
    /\ scr' = IdleScr
    /\ products' = update_last_checked(products, chk.product.id, AfterScrape(clock))
    /\ UNCHANGED <<prices, clock, today, last_summary_date, summary_day,
                   conns, sched, other, parse_io>>

\* check_product line 42 when scrape_product raises
ScrapeRaised ==
    /\ pc = "scrape"
    /\ scr.stage = "raised"
    /\ Fail(scr.error)
    /\ scr' = IdleScr
    /\ UNCHANGED <<dbVars, today, last_summary_date, summary_day,
                   conns, sched, other, parse_io>>

ScrapeSteps ==
    \/ \E ok \in BOOLEAN : PageGoto(ok)
    \/ RetryWait
    \/ \E ok \in BOOLEAN : PageGotoRetry(ok)
    \/ \E page \in Pages : AmazonPrice(page)
    \/ AmazonDivs
    \/ \E mrps \in ElemTexts, in_stock \in BOOLEAN : AmazonMrp(mrps, in_stock)
    \/ \E elems \in JsElems : FlipkartJs(elems)
    \/ \E page \in Pages : FlipkartFallbackPrice(page)
    \/ \E nodes \in TextNodes : FlipkartFallbackText(nodes)
    \/ \E mrps \in ElemTexts : FlipkartFallbackMrp(mrps)
    \/ \E in_stock \in BOOLEAN : FlipkartFinish(in_stock)

\* ---- specifications ----------------------------------------------------
CheckSteps ==
    \/ ScrapeFails
    \/ ReadPrevious
    \/ RecordPrice
    \/ SendEmailPriceAlert
    \/ SendEmailBackInStock
    \/ SendTelegramPriceAlert
    \/ SendTelegramBackInStock

\* single-product checks (web and CLI) on a store that adds keep changing
ScrapesLeft == clock < MaxScrapes * SettleSeconds

NextCheck ==
    \/ \E url \in Urls, t \in Targets, info \in CheckInfos :
          ScrapesLeft /\ AddProduct(url, SomeTitle, t, info)
    \/ \E url \in Urls, t \in Targets :
          ScrapesLeft /\ AddProductInterrupted(url, t)
    \/ \E id \in ProductIds, email, telegram \in BOOLEAN : WebCheckOne(id, email, telegram)
    \/ \E id \in ProductIds, email \in BOOLEAN : CliCheckOne(id, email)
    \/ \E info \in CheckInfos : ScrapesLeft /\ Scrape(info)
    \/ CheckSteps
    \/ ReturnSingle
    \/ Finish

SpecCheck == Init /\ [][NextCheck]_vars

\* batch runs (web and CLI; the scheduler's are in SpecDaily) within one day
BatchScrapesLeft == clock < MaxBatchScrapes * SettleSeconds

NextBatch ==
    \/ \E url \in Urls, t \in BatchTargets, info \in BatchInfos :
          BatchScrapesLeft /\ IdOfUrl(url) = 0 /\ AddProduct(url, SomeTitle, t, info)
    \/ \E id \in ProductIds : RemoveProduct(id)
    \/ \E email, telegram \in BOOLEAN : WebCheckAll(email, telegram)
    \/ \E email \in BOOLEAN : CliCheckAll(email)
    \/ \E info \in BatchInfos : BatchScrapesLeft /\ Scrape(info)
    \/ CheckSteps
    \/ Aggregate
    \/ Summary
    \/ Finish

SpecBatch == Init /\ [][NextBatch]_vars

\* scheduler and web batch runs on one product over the days
NextDaily ==
    \/ \E t \in BatchTargets, info \in BatchInfos :
          BatchScrapesLeft /\ products = <<>> /\ AddProduct(1, SomeTitle, t, info)
    \/ \E id \in ProductIds, t \in BatchTargets : SetTargetPrice(id, t)
    \/ NewDay
    \/ RestartScheduler
    \/ \E email, telegram \in BOOLEAN : RunCheck(email, telegram)
    \/ \E email, telegram \in BOOLEAN : WebCheckAll(email, telegram)
    \/ \E info \in BatchInfos : BatchScrapesLeft /\ Scrape(info)
    \/ CheckSteps
    \/ Aggregate
    \/ Summary
    \/ Finish

SpecDaily == Init /\ [][NextDaily]_vars

\* _parse_price applied to every text of the alphabet up to MaxTextLen
InitParse ==
    /\ InitProgram
    /\ scr = IdleScr
    /\ parse_io \in {[stage |-> "called", text |-> t, result |-> NoValue] : t \in Texts}

NextParse == ParsePrice

SpecParse == InitParse /\ [][NextParse]_vars

\* checks of one product, with the scrape of each check taken step by step
StepScrapesLeft == clock < MaxStepScrapes * SettleSeconds

NextScrape ==
    \/ \E info \in CheckInfos : products = <<>> /\ AddProduct(1, SomeTitle, None, info)
    \/ \E id \in ProductIds, email \in BOOLEAN :
          StepScrapesLeft /\ CliCheckOne(id, email)
    \/ \E url \in UrlTexts : BeginScrape(url)
    \/ ScrapeSteps
    \/ ScrapeReturned
    \/ ScrapeRaised
    \/ ReadPrevious
    \/ RecordPrice
    \/ SendEmailPriceAlert
    \/ SendEmailBackInStock
    \/ SendTelegramPriceAlert
    \/ SendTelegramBackInStock
    \/ ReturnSingle
    \/ Finish

SpecScrape == Init /\ [][NextScrape]_vars

\* the store under every operation that writes it: add, remove, set-target
\* and single checks
NextStore ==
    \/ \E url \in Urls, t \in Targets, info \in CheckInfos :
          ScrapesLeft /\ AddProduct(url, SomeTitle, t, info)
    \/ \E id \in ProductIds : RemoveProduct(id)
    \/ \E id \in ProductIds, t \in Targets : SetTargetPrice(id, t)
    \/ \E id \in ProductIds : CliCheckOne(id, FALSE)
    \/ \E info \in CheckInfos : ScrapesLeft /\ Scrape(info)
    \/ CheckSteps
    \/ ReturnSingle
    \/ Finish

SpecStore == Init /\ [][NextStore]_vars

\* the scheduler process from start to shutdown, on a list of one product

NextSched ==
    \/ \E t \in BatchTargets, info \in BatchInfos :
          BatchScrapesLeft /\ products = <<>> /\ AddProduct(1, SomeTitle, t, info)
    \/ \E email, telegram \in BOOLEAN : RunCheck(email, telegram)
    \/ conns < MaxOpenFailures /\ RunCheckSchemaFails
    \/ \E info \in BatchInfos : BatchScrapesLeft /\ Scrape(info)
    \/ CheckSteps
    \/ Aggregate
    \/ Summary
    \/ Finish
    \/ ShutdownSignal
    \/ SchedulerExit

SpecSched == Init /\ [][NextSched]_vars

\* adds, removals and target changes, the page title changing between adds
NextReAdd ==
    \/ \E url \in Urls, title \in Titles, t \in Targets, info \in CheckInfos :
          ScrapesLeft /\ AddProduct(url, title, t, info)
    \/ \E id \in ProductIds : RemoveProduct(id)
    \/ \E id \in ProductIds, t \in Targets : SetTargetPrice(id, t)

SpecReAdd == Init /\ [][NextReAdd]_vars

\* two web requests for single checks at the same time
RowsLeft == Len(prices) < MaxScrapes

NextOverlap ==
    \/ \E info \in CheckInfos : products = <<>> /\ AddProduct(1, SomeTitle, None, info)
    \/ \E id \in ProductIds : RowsLeft /\ WebCheckOne(id, FALSE, FALSE)
    \/ \E info \in CheckInfos : ScrapesLeft /\ Scrape(info)
    \/ CheckSteps
    \/ ReturnSingle
    \/ Finish
    \/ \E id \in ProductIds : RowsLeft /\ OtherCheckOne(id)
    \/ \E info \in CheckInfos : OtherScrape(info)
    \/ OtherReadPrevious
    \/ OtherRecordPrice
    \/ OtherFinish

SpecOverlap == Init /\ [][NextOverlap]_vars

\* ---- what a finished check and a finished pass look like ----------------
Max(S) == CHOOSE m \in S : \A x \in S : x <= m

\* check_product has scraped and is about to return (line 92 or 96)
Checked == pc = "ret" /\ chk.info # NoInfo

Called(call) == \E k \in DOMAIN chk.calls : chk.calls[k] = call

\* the row of the checked product written last before this check's own row,
\* which is the last row of the table
Preceding ==
    LET older == {k \in RowsOf(chk.product.id) : k < Len(prices)}
    IN  IF older = {} THEN NoRow ELSE prices[Max(older)]

\* check_all_products has left its loop
PassDone == pc \in {"summary", "done"}

\* telegram.send_daily_summary was called at the end of the pass
SummarySent == pc = "done" /\ run.summary # <<>>

TargetOf(k) == run.products[k].target_price

\* ---- claims -------------------------------------------------------------

\* C1 (as claimed): the daily summary reaches the Telegram chat at most once
\* per calendar day, whatever entry points start the batch runs of that day:
\* no summary is delivered on a day on which one was already delivered.
C1_AtMostOneSummaryPerDay ==
    [][(pc = "summary" /\ pc' = "done" /\ run'.delivered) => summary_day # today]_vars

\* C2: in a check of a product with the email channel configured, the
\* price-drop alert is called if and only if a preceding price row exists and
\* the new price is strictly lower than that row's price.
C2_EmailPriceDropIff ==
    (Checked /\ run.notifier) =>
        (Called(EmailPriceAlert) <=>
            (Preceding # NoRow /\ chk.info.price < Preceding.price))

\* a check on the email channel has called the price-drop alert
C2_Witness == Checked /\ run.notifier /\ Called(EmailPriceAlert)

\* C3 (as claimed): in every check where scraping succeeds, Telegram is
\* configured, the product has a target (here: one above zero) and the
\* scraped price is at or below it, the Telegram target alert is called in
\* that check.
C3_TargetAlertEveryCheck ==
    (Checked /\ run.telegram /\ Truthy(chk.product.target_price)
       /\ chk.info.price <= chk.product.target_price)
    => Called(TelegramPriceAlert)

\* C4 (as claimed): on each configured channel the back-in-stock alert is
\* called if and only if a preceding row exists, it was out of stock and the
\* new observation is in stock.
C4_BackInStockIff ==
    Checked =>
        LET restock == Preceding # NoRow /\ ~Preceding.in_stock /\ chk.info.in_stock
        IN  /\ run.notifier => (Called(EmailBackInStock) <=> restock)
            /\ run.telegram => (Called(TelegramBackInStock) <=> restock)

\* C5 (as claimed): on the first-ever check of a product (no price row yet)
\* no price-drop and no back-in-stock alert is called on any channel, and the
\* Telegram target alert is called exactly when a target is set and the
\* scraped price is at or below it.
C5_FirstCheckOnlyTargetAlert ==
    (Checked /\ Preceding = NoRow) =>
        /\ ~Called(EmailPriceAlert)
        /\ ~Called(EmailBackInStock)
        /\ ~Called(TelegramBackInStock)
        /\ run.telegram =>
              (Called(TelegramPriceAlert) <=>
                  (chk.product.target_price # None
                   /\ chk.info.price <= chk.product.target_price))

\* C6: when a batch pass has left its loop, every product of its list has
\* been checked, in list order, whatever the checks before it returned; every
\* product whose scrape succeeded has its observation among the rows written
\* during the pass; and one error line is logged for each failed check, none
\* for the others.
C6_FailureDoesNotAbortBatch ==
    PassDone =>
        /\ Len(run.outcomes) = Len(run.products)
        /\ \A k \in DOMAIN run.outcomes :
              /\ run.outcomes[k].product = run.products[k].id
              /\ run.outcomes[k].info # NoInfo =>
                    \E j \in DOMAIN prices :
                        /\ j > run.start_len
                        /\ prices[j].product_id = run.outcomes[k].product
                        /\ prices[j].price = run.outcomes[k].info.price
                        /\ prices[j].in_stock = run.outcomes[k].info.in_stock
              /\ Cardinality({e \in DOMAIN run.errors :
                                run.errors[e] = run.outcomes[k].product})
                    = IF run.outcomes[k].result = NoInfo THEN 1 ELSE 0

\* a pass of two products in which the first check failed and the second
\* succeeded
C6_Witness ==
    /\ PassDone
    /\ Len(run.outcomes) = 2
    /\ run.outcomes[1].result = NoInfo
    /\ run.outcomes[2].result # NoInfo
    /\ Len(run.errors) = 1

\* C7 (as claimed): a daily summary is sent after a pass only if no targeted
\* product of the pass was observed at or below its target in that pass.
C7_SummaryOnlyIfAllAbove ==
    SummarySent =>
        \A k \in DOMAIN run.outcomes :
            (TargetOf(k) # None /\ run.outcomes[k].info # NoInfo)
            => run.outcomes[k].info.price > TargetOf(k)

\* C8 (as claimed): the plain summary, naming no product, is sent only when
\* no product of the pass has a target.
C8_PlainOnlyWithoutTargets ==
    (SummarySent /\ run.summary[1].closest_product = 0) =>
        \A k \in DOMAIN run.products : TargetOf(k) = None

\* C9 (as claimed): a summary that names a product reports a gap above zero
\* that is the smallest positive gap among the targeted products observed in
\* the pass.
C9_ClosestIsSmallestGap ==
    (SummarySent /\ run.summary[1].closest_product # 0) =>
        /\ run.summary[1].closest_gap > 0
        /\ \A k \in DOMAIN run.outcomes :
              (/\ TargetOf(k) # None
               /\ run.outcomes[k].info # NoInfo
               /\ run.outcomes[k].info.price - TargetOf(k) > 0)
              => run.summary[1].closest_gap <= run.outcomes[k].info.price - TargetOf(k)

SendFailed == pc = "ret" /\ chk.info # NoInfo /\ chk.error # ""

\* C12: when a channel send has raised in a product's check of a batch pass,
\* the row written for that check is the last row of the store, the check
\* hands back no result and one more error line names the product; the batch
\* then leaves the rows alone and goes on to the next product of its list,
\* or to the summary after the last one.
C12_SendFailureCaughtPerProduct ==
    [][(SendFailed /\ IsBatch) =>
          /\ Len(prices) > run.start_len
          /\ prices[Len(prices)].product_id = chk.product.id
          /\ prices[Len(prices)].price = chk.info.price
          /\ prices[Len(prices)].in_stock = chk.info.in_stock
          /\ chk.result = NoInfo
          /\ run.errors # <<>> /\ run.errors[Len(run.errors)] = chk.product.id
          /\ prices' = prices
          /\ IF run.i < Len(run.products)
             THEN pc' = "scrape" /\ chk'.product = run.products[run.i + 1]
             ELSE pc' = "summary"]_vars

\* the pass is at its second product after a send of the first check raised
C12_Witness ==
    /\ IsBatch
    /\ pc = "scrape"
    /\ run.i = 2
    /\ run.outcomes[1].info # NoInfo
    /\ run.outcomes[1].result = NoInfo
    /\ \E j \in DOMAIN prices :
          j > run.start_len /\ prices[j].product_id = run.outcomes[1].product

\* a single check has answered its caller
Answered == pc = "done" /\ run.mode = "check_product"

\* C13 (as claimed): a single check, from the CLI or the web, that failed in
\* scraping or in a channel send answers its caller with the error message,
\* and not with the answer of a check that went well.
C13_SingleCheckSurfacesError ==
    (Answered /\ chk.error # "") =>
        /\ run.response[1].message = chk.error
        /\ run.response[1].status # "success"

\* C18: no step of add, check, remove or set-target takes a price row away
\* or changes one: the rows of before are a prefix of the rows of after; no
\* product leaves the table; and a step that removes a product changes its
\* active flag and nothing else, in particular no price row.
C18_HistoryAppendOnly ==
    [][/\ Len(prices') >= Len(prices)
       /\ \A k \in DOMAIN prices : prices'[k] = prices[k]
       /\ \A id \in DOMAIN products :
             /\ id \in DOMAIN products'
             /\ (products[id].is_active /\ ~products'[id].is_active) =>
                   /\ prices' = prices
                   /\ products' = [products EXCEPT ![id].is_active = FALSE]]_vars

\* a removed product that keeps a history of two rows or more
C18_Witness ==
    \E id \in ProductIds :
        ~products[id].is_active /\ Cardinality(RowsOf(id)) >= 2

\* check_product is running for the first request / for the second
InCheck == pc \in {"scrape", "read", "record", "email_price", "email_stock",
                   "telegram_price", "telegram_stock", "ret"}

OtherInCheck == other.pc # "idle"

\* C19 (as claimed): at most one product check is in progress at any time,
\* and two checks of the same product are never both between reading the
\* previous row and recording the new one.
C19_OneCheckAtATime ==
    /\ ~(InCheck /\ OtherInCheck)
    /\ ~(/\ pc = "record"
         /\ other.pc = "record"
         /\ chk.product.id = other.product.id)

\* C14 (as claimed): a batch run starts only while no shutdown signal has
\* arrived, and the shutdown completes only when no product check of a run
\* is under way: the check in flight has returned or failed before.
C14_ShutdownWaitsForCheck ==
    [][/\ (pc = "idle" /\ pc' # "idle") => sched = "running"
       /\ (sched = "stopping" /\ sched' = "stopped") => ~MidProduct]_vars

\* C15 (as claimed): while a scheduler run is under way it holds exactly one
\* store connection, and whenever no run is under way, however the last one
\* ended, no connection is open.
C15_OneConnectionPerRun ==
    /\ pc # "idle" => conns = 1
    /\ pc = "idle" => conns = 0

\* ---- claims about the scrapers ------------------------------------------
Parsed == parse_io.stage = "returned"

\* a text that is an amount: digits, at most one decimal point, and nothing
\* else but currency signs, commas and blanks
PriceShaped(text) ==
    /\ \A k \in DOMAIN text : text[k] \in Digits \cup {"₹", ",", " ", "."}
    /\ Cardinality({k \in DOMAIN text : text[k] = "."}) <= 1
    /\ \E k \in DOMAIN text : text[k] \in Digits

\* the amount such a text states: its digits read as one numeral, divided by
\* ten for every digit after the decimal point
Amount(text) ==
    LET dot   == IF \E k \in DOMAIN text : text[k] = "."
                 THEN CHOOSE k \in DOMAIN text : text[k] = "."
                 ELSE Len(text)
        after == {k \in DOMAIN text : k > dot /\ text[k] \in Digits}
    IN  [num |-> DigitsValue(SelectSeq(text, LAMBDA c : c \in Digits)),
         den |-> Pow10(Cardinality(after))]

\* C16 (as claimed): _parse_price never raises; for an amount it returns the
\* amount with currency sign, commas and blanks stripped; for an empty text
\* and for a text with a letter in it it returns no value, not zero; and
\* every value it returns is a non-negative amount.
C16_ParsePriceContract ==
    Parsed =>
        /\ parse_io.result # ValueError
        /\ PriceShaped(parse_io.text) => parse_io.result = Amount(parse_io.text)
        /\ (parse_io.text = <<>> \/ \E k \in DOMAIN parse_io.text : parse_io.text[k] = "F")
              => parse_io.result = NoValue
        /\ IsNumber(parse_io.result) => parse_io.result.num >= 0

\* scrape() has returned a ProductInfo
Scraped == scr.stage = "returned"

\* C11 (as claimed): every ProductInfo a scraper returns, Amazon or Flipkart
\* (JavaScript path or fallback path), has original_price absent or strictly
\* greater than price.
C11_OriginalPriceAbovePrice ==
    Scraped => (scr.original_price = NoValue \/ Less(scr.price, scr.original_price))

\* the handler kind the claim names for a URL
HandlerInOrder(url) ==
    IF can_handle(AmazonScraper, url) THEN AmazonScraper
    ELSE IF can_handle(FlipkartScraper, url) THEN FlipkartScraper
    ELSE NoScraper

\* C17: when scrape_product asks get_scraper_for_url for a URL, the handler
\* is the first of Amazon, Flipkart whose can_handle(url) is true and no
\* handler when neither is; it is a function of the URL alone, and the call
\* changes nothing but the scrape that asked.
C17_FirstHandlerInOrder ==
    [][(scr.stage = "idle" /\ scr'.stage # "idle") =>
          /\ scr'.scraper = HandlerInOrder(scr'.url)
          /\ UNCHANGED scrapeFrame]_vars

\* a Flipkart URL, which the first handler in the list has declined
C17_Witness ==
    scr.stage = "goto" /\ scr.scraper = FlipkartScraper
       /\ ~can_handle(AmazonScraper, scr.url)

\* C20: a scrape loads the page at most twice, first with the 30 s timeout
\* and then with twice that; the second load follows a failed first load and
\* the pause; when the second load fails too the scrape raises without a
\* price, and the check it belongs to ends without a result and without a
\* new price row.
C20_AtMostTwoPageLoads ==
    /\ scr.gotos \in {<<>>, <<FirstTimeout>>, <<FirstTimeout, 2 * FirstTimeout>>}
    /\ Len(scr.gotos) = 2 => (scr.waits = <<RetryPause>> /\ scr.load_errors >= 1)
    /\ scr.load_errors = 2 =>
          (scr.stage = "raised" /\ scr.price = NoValue /\ ~scr.page_open)
    /\ (pc = "ret" /\ chk.error = "page.goto") =>
          (chk.result = NoInfo /\ chk.info = NoInfo /\ Len(prices) = run.start_len)

\* a check has failed on the second page load
C20_Witness ==
    pc = "ret" /\ chk.error = "page.goto" /\ Len(prices) = run.start_len

\* C21 (as claimed): the selling price a scraper returns, by its primary
\* strategy or by a fallback, is never read from an element that is struck
\* through or that sits under offer, EMI, exchange or lowest-price wording.
C21_PriceNeverFromRejectedContext ==
    Scraped => (~scr.source.strike /\ ~scr.source.offer)

\* C22 (as claimed): when the page shows candidates that survive the
\* rejection rule, the selling price returned is the first of them in
\* document order, whatever selector or strategy found it.
C22_FirstSurvivingInDocumentOrder ==
    (Scraped /\ scr.expected # NoValue) => scr.price = scr.expected

\* the strategies a scraper has to go through before it may give up
AllStrategies(scraper) ==
    IF scraper = AmazonScraper THEN <<"selectors", "divs">>
    ELSE <<"js", "legacy", "text">>

ExtractionFailed == scr.stage = "raised" /\ scr.error = "Could not extract price"

FromSelectorLoop ==
    /\ scr.strategies # <<>>
    /\ scr.strategies[Len(scr.strategies)] \in {"selectors", "divs", "legacy"}

\* C30 (as claimed): the price a selector-list loop leaves is either no
\* price or an amount that passed the loop's test (parsed and not zero);
\* a ProductInfo built from it never carries a rejected value such as 0.
C30_LoopPriceIsValidated ==
    FromSelectorLoop => (scr.price = NoValue \/ FloatTruthy(scr.price))

\* C24: in a batch over n active products the loop sleeps delay_between
\* seconds between every two successive checks and nowhere else: check
\* number i starts after exactly i - 1 sleeps, whether the checks before it
\* returned an observation or failed, and the pass ends with n - 1 sleeps
\* (none for an empty list, none after the last product).
C24_DelayBetweenChecksOnly ==
    IsBatch =>
       /\ \A k \in DOMAIN run.sleeps : run.sleeps[k] = delay_between(run.entry)
       /\ (MidProduct \/ pc = "ret") => Len(run.sleeps) = run.i - 1
       /\ PassDone => /\ Len(run.sleeps) = Max({Len(run.products) - 1, 0})
                       /\ Len(run.outcomes) = Len(run.products)

\* a pass over two products whose first check failed, with one sleep
C24_Witness ==
    /\ IsBatch
    /\ PassDone
    /\ Len(run.products) = 2
    /\ run.outcomes[1].result = NoInfo
    /\ run.sleeps = <<delay_between(run.entry)>>

\* the three ways scrape_product fails
ScrapeErrors == {"No scraper available", "page.goto", "Could not extract price"}

\* C25: when scrape_product raises in check_product (no scraper for the
\* URL, page load failed after the retry, no price extracted) the step that
\* catches it writes nothing to the store (no price row, last_checked as it
\* was), makes no send and yields no observation; and from then to the end
\* of that check the store is not written and no send is made.
C25_ScrapeFailureLeavesStore ==
    [][/\ (pc = "scrape" /\ pc' = "ret") =>
             /\ chk'.error \in ScrapeErrors
             /\ chk'.result = NoInfo /\ chk'.info = NoInfo /\ chk'.calls = <<>>
             /\ UNCHANGED <<products, prices>>
       /\ chk.error \in ScrapeErrors =>
             /\ UNCHANGED <<products, prices>>
             /\ chk' = chk \/ chk' = IdleChk]_vars

\* a check with the e-mail channel configured, of a product checked before,
\* has failed for want of a price
C25_Witness ==
    /\ pc = "ret"
    /\ chk.error = "Could not extract price"
    /\ run.notifier
    /\ products[chk.product.id].last_checked # None
    /\ Len(prices) = run.start_len

\* the check has written its row: it is the last of the table
OwnRowWritten ==
    /\ Len(prices) = run.start_len + 1
    /\ prices[Len(prices)].product_id = chk.product.id
    /\ prices[Len(prices)].price = chk.info.price

\* C26: check_product writes its price row before it makes any send, so
\* when the price-drop alert of a check fails the lower price is already the
\* latest row of the product: a check that follows with the same price has
\* that row as its previous one, for which no price-drop alert is due, and
\* indeed no check whose price equals its previous row's calls the alert.
C26_FailedDropAlertNotRepeated ==
    /\ (pc \in {"email_price", "email_stock", "telegram_price", "telegram_stock"}
         \/ (pc = "ret" /\ chk.calls # <<>>)) => OwnRowWritten
    /\ (pc = "ret" /\ chk.error = EmailPriceAlert) =>
          \A previous \in get_latest_price(chk.product.id), in_stock \in BOOLEAN :
              /\ previous.price = chk.info.price
              /\ ~EmailPriceAlertDue(run.notifier, previous,
                                     [price |-> chk.info.price, in_stock |-> in_stock])
    /\ (Checked /\ chk.previous # NoRow /\ chk.info.price = chk.previous.price) =>
          ~Called(EmailPriceAlert)

\* the price-drop alert of a check has failed after the lower price was
\* written
C26_Witness ==
    /\ pc = "ret"
    /\ chk.error = EmailPriceAlert
    /\ OwnRowWritten
    /\ Preceding # NoRow
    /\ chk.info.price < Preceding.price

\* a run_check of the scheduler is in its batch
InRunCheck == IsBatch /\ run.entry = "scheduler"

\* C27: run_check stores today's date as the summary date before its batch
\* starts and whatever the batch then does: a run_check that starts while
\* the stored date is today runs with the summary disabled and sends none,
\* the stored date changes only when a run_check starts (or, to None, when
\* the process restarts), and during every run_check it is today's date.
C27_SummaryDayMarkedBeforeBatch ==
    [][/\ (pc = "idle" /\ InRunCheck') =>
             /\ last_summary_date' = today
             /\ run'.send_telegram_summary = (last_summary_date # today)
       /\ last_summary_date' # last_summary_date =>
             ((pc = "idle" /\ InRunCheck') \/ (pc' = "idle" /\ last_summary_date' = None))
       /\ InRunCheck =>
             /\ last_summary_date = today
             /\ ~run.send_telegram_summary => run'.summary = <<>>]_vars

\* a run_check with the summary disabled on a day on which no summary has
\* been delivered
C27_Witness ==
    /\ InRunCheck
    /\ ~run.send_telegram_summary
    /\ run.telegram
    /\ summary_day # today
    /\ PassDone

\* the sends of check_product in the order of its statements
SendOrder == <<EmailPriceAlert, EmailBackInStock, TelegramPriceAlert, TelegramBackInStock>>

\* whether the condition guarding a send holds in this check
Due(call) ==
    IF call = EmailPriceAlert
    THEN EmailPriceAlertDue(run.notifier, chk.previous, chk.info)
    ELSE IF call = EmailBackInStock
    THEN EmailBackInStockDue(run.notifier, chk.previous, chk.info)
    ELSE IF call = TelegramPriceAlert
    THEN TelegramPriceAlertDue(run.telegram, chk.product, chk.info)
    ELSE TelegramBackInStockDue(run.telegram, chk.previous, chk.info)

DueCalls == SelectSeq(SendOrder, Due)

\* C28: the sends of a check are attempted in the fixed order e-mail price
\* drop, e-mail back in stock, Telegram target, Telegram back in stock: a
\* check that ends without a send failure has attempted exactly its due
\* sends in that order, and one whose send failed has attempted the due
\* sends up to the failed one and none after it.
C28_SendsInOrderFirstFailureAborts ==
    Checked =>
        IF chk.error = ""
        THEN chk.calls = DueCalls
        ELSE \E n \in DOMAIN DueCalls :
                /\ DueCalls[n] = chk.error
                /\ chk.calls = SubSeq(DueCalls, 1, n)

\* the first of several due sends failed and the others were not attempted
C28_Witness ==
    /\ Checked
    /\ chk.error = DueCalls[1]
    /\ Len(DueCalls) >= 3
    /\ chk.calls = <<DueCalls[1]>>

\* the step is an add of a URL that is stored already: the handler runs
\* from idle to idle, its scrape takes time, and no product row is new
ReAddStep == pc = "idle" /\ pc' = "idle" /\ clock' # clock /\ Len(products') = Len(products)

\* C29: add_product on a URL that is stored already, active or removed,
\* keeps the product's id, URL, added_at and target_price and every price
\* row, sets it active and gives it the title of the new scrape; the target
\* passed with the call is not stored.  The handler then records the
\* scraped price as one more row of the same product.
C29_ReAddKeepsTargetAndHistory ==
    [][ReAddStep =>
          \E id \in DOMAIN products :
             /\ \A other_id \in DOMAIN products \ {id} :
                    products'[other_id] = products[other_id]
             /\ products'[id].url = products[id].url
             /\ products'[id].added_at = products[id].added_at
             /\ products'[id].target_price = products[id].target_price
             /\ products'[id].is_active
             /\ products'[id].title \in Titles
             /\ products'[id].readd # <<>>
             /\ products'[id].readd[1].stored = products[id].target_price
             /\ products'[id].readd[1].title = products[id].title
             /\ Len(prices') = Len(prices) + 1
             /\ \A k \in DOMAIN prices : prices'[k] = prices[k]
             /\ prices'[Len(prices')].product_id = id]_vars

\* a removed product was added again with another target and another
\* title: it is active, has the new title, the old target and its old rows
C29_Witness ==
    \E id \in ProductIds :
        /\ products[id].readd # <<>>
        /\ ~products[id].readd[1].is_active
        /\ products[id].is_active
        /\ products[id].readd[1].target_price # products[id].readd[1].stored
        /\ products[id].target_price = products[id].readd[1].stored
        /\ products[id].title # products[id].readd[1].title
        /\ products[id].readd[1].rows >= 1
        /\ Cardinality(RowsOf(id)) = products[id].readd[1].rows + 1

====
